---- MODULE Spec2Model ----
(***************************************************************************)
(* A model of iprscan5_urllib2.py, the InterProScan 5 REST client: one     *)
(* invocation of the script, from the dispatch on the command-line options *)
(* (lines 343-401) through job submission (service_run), the poll loop     *)
(* (client_poll) and result retrieval (get_result).  The remote service is *)
(* the environment: every HTTP request either fails (urllib2.HTTPError) or *)
(* answers with a value chosen from a small set.                           *)
(*                                                                         *)
(* Text that ends up in the submission body is modelled as a sequence of   *)
(* one-character strings, so that quoting, splitting and parsing are       *)
(* computed character by character.  Identifiers that are only compared or *)
(* concatenated (job ids, result-type identifiers, file names, status      *)
(* tokens) are TLA+ strings.                                               *)
(***************************************************************************)
EXTENDS Integers, Sequences, FiniteSets, TLC

VARIABLES
    options,       \* the parsed command line: (options, args) of line 79
    pc,            \* position of the script
    job_id,        \* jobid of line 383 / the job_id argument of get_result
    result,        \* the local variable `result` of client_poll
    pollReturn,    \* what the call client_poll(job_id) evaluated to (line 313)
    result_types,  \* the list get_result iterates over (line 315)
    idx,           \* position of the for loop of line 316 in result_types
    trace,         \* every HTTP request and every time.sleep, in program order
    files,         \* the result files written, in program order
    stdout,        \* what was printed to sys.stdout
    stderr         \* what was printed to sys.stderr

vars == <<options, pc, job_id, result, pollReturn, result_types, idx,
          trace, files, stdout, stderr>>

----------------------------------------------------------------------------
(* Bounds of the model.                                                    *)

\* The service answers PENDING or RUNNING at most MaxPolls times per run.
MaxPolls == 2
\* The --appl option is at most MaxApplLen characters long.
MaxApplLen == 3

----------------------------------------------------------------------------
(* Python values.                                                          *)

\* An option that was not given is None; a given one is Some(value).
None == <<>>
Some(v) == <<v>>
Val(o) == o[1]

\* Truth value of an optional string option: None and '' are false.
Truthy(o) == o # None /\ Val(o) # ""
\* The same for an option whose text is modelled character by character.
TruthyText(o) == o # None /\ Val(o) # <<>>

\* Set interval for checking status
checkInterval == 10
\* The pause of the synchronous branch between submission and get_result
submitDelay == 5

baseUrl == "https://www.ebi.ac.uk/Tools/services/rest/iprscan5"

----------------------------------------------------------------------------
(* Text as sequences of characters.                                        *)

Lower == {"a","b","c","d","e","f","g","h","i","j","k","l","m",
          "n","o","p","q","r","s","t","u","v","w","x","y","z"}
Upper == {"A","B","C","D","E","F","G","H","I","J","K","L","M",
          "N","O","P","Q","R","S","T","U","V","W","X","Y","Z"}
Digit == {"0","1","2","3","4","5","6","7","8","9"}

\* urllib.always_safe: the characters quote() never escapes
always_safe == Lower \cup Upper \cup Digit \cup {"_", ".", "-"}

\* '%02X' % ord(c) for the other characters the model uses
PercentCode(c) ==
    CASE c = "@" -> <<"%","4","0">>
      [] c = "&" -> <<"%","2","6">>
      [] c = "=" -> <<"%","3","D">>
      [] c = "+" -> <<"%","2","B">>
      [] c = "%" -> <<"%","2","5">>
      [] c = "," -> <<"%","2","C">>
      [] c = ";" -> <<"%","3","B">>
      [] c = "/" -> <<"%","2","F">>

\* urllib.quote_plus of one character: safe characters stay, a space becomes
\* '+', everything else becomes %XX
QuoteChar(c) ==
    IF c \in always_safe THEN <<c>>
    ELSE IF c = " " THEN <<"+">>
    ELSE PercentCode(c)

RECURSIVE quote_plus(_)
quote_plus(s) ==
    IF s = <<>> THEN <<>> ELSE QuoteChar(Head(s)) \o quote_plus(Tail(s))

\* str(v) of a parameter value: a string is itself, a boolean is True/False
PyStr(v) ==
    CASE v.t = "str" -> v.v
      [] v.t = "bool" -> IF v.v THEN <<"T","r","u","e">>
                         ELSE <<"F","a","l","s","e">>

\* str(k) of the parameter names
KeyChars(k) ==
    CASE k = "email" -> <<"e","m","a","i","l">>
      [] k = "title" -> <<"t","i","t","l","e">>
      [] k = "sequence" -> <<"s","e","q","u","e","n","c","e">>
      [] k = "goterms" -> <<"g","o","t","e","r","m","s">>
      [] k = "pathways" -> <<"p","a","t","h","w","a","y","s">>
      [] k = "appl" -> <<"a","p","p","l">>

\* The separators of re.split('[ \t\n,;]+', ...)
Separators == {" ", "\t", "\n", ",", ";"}

\* re.split('[ \t\n,;]+', s): the pieces of s between the maximal runs of
\* separators; a leading or trailing run leaves an empty piece.
RECURSIVE SplitFrom(_, _, _, _)
SplitFrom(s, i, cur, acc) ==
    IF i > Len(s) THEN Append(acc, cur)
    ELSE IF s[i] \in Separators
         THEN IF i > 1 /\ s[i-1] \in Separators
              THEN SplitFrom(s, i + 1, cur, acc)
              ELSE SplitFrom(s, i + 1, <<>>, Append(acc, cur))
         ELSE SplitFrom(s, i + 1, Append(cur, s[i]), acc)

re_split(s) == SplitFrom(s, 1, <<>>, <<>>)

----------------------------------------------------------------------------
(* Dictionaries.                                                           *)

EmptyDict == [k \in {} |-> None]
Put(d, k, v) == [x \in DOMAIN d \cup {k} |-> IF x = k THEN v ELSE d[x]]
Del(d, k) == [x \in DOMAIN d \ {k} |-> d[x]]
StrV(s) == [t |-> "str", v |-> s]
BoolV(b) == [t |-> "bool", v |-> b]
ListV(l) == [t |-> "list", v |-> l]

\* The orders in which iterating a dict with the keys K can yield them
Orders(K) ==
    {o \in [1..Cardinality(K) -> K] : \A i, j \in DOMAIN o : i # j => o[i] # o[j]}

----------------------------------------------------------------------------
(* The local file system, as far as the script reads it.                   *)

\* The one readable file and what read_file returns for it
SeqFile == <<"f">>
SeqFileData == <<"M","K">>
os_access(name) == name = SeqFile
read_file(name) == SeqFileData

----------------------------------------------------------------------------
(* Submission: the parameters of the submit branch and service_run.        *)

\* params['sequence'] of lines 355-364: nothing is stored when there is
\* neither a positional argument nor a --sequence option
SequenceParam(o) ==
    IF Len(o.args) > 0
    THEN Put(EmptyDict, "sequence",
             StrV(IF os_access(o.args[1]) THEN read_file(o.args[1]) ELSE o.args[1]))
    ELSE IF TruthyText(o.sequence)
    THEN Put(EmptyDict, "sequence",
             StrV(IF os_access(Val(o.sequence)) THEN read_file(Val(o.sequence))
                  ELSE Val(o.sequence)))
    ELSE EmptyDict

\* lines 370-373
GotermsParam(o, d) ==
    IF o.goterms THEN Put(d, "goterms", BoolV(TRUE))
    ELSE IF o.nogoterms THEN Put(d, "goterms", BoolV(FALSE))
    ELSE d

\* lines 374-377
PathwaysParam(o, d) ==
    IF o.pathways THEN Put(d, "pathways", BoolV(TRUE))
    ELSE IF o.nopathways THEN Put(d, "pathways", BoolV(FALSE))
    ELSE d

\* lines 379-380
ApplParam(o, d) ==
    IF TruthyText(o.appl) THEN Put(d, "appl", ListV(re_split(Val(o.appl)))) ELSE d

\* params as passed to service_run on line 383
BuildParams(o) == ApplParam(o, PathwaysParam(o, GotermsParam(o, SequenceParam(o))))

\* lines 198-200: insert e-mail and title into parameters
WithEmailTitle(email, title, parameters) ==
    LET p == Put(parameters, "email", StrV(Val(email)))
    IN  IF TruthyText(title) THEN Put(p, "title", StrV(Val(title))) ELSE p

RECURSIVE ApplFragments(_)
ApplFragments(appl_list) ==
    IF appl_list = <<>> THEN <<>>
    ELSE <<"&","a","p","p","l","=">> \o Head(appl_list) \o ApplFragments(Tail(appl_list))

RECURSIVE JoinComma(_)
JoinComma(l) ==
    IF l = <<>> THEN <<>>
    ELSE IF Len(l) = 1 THEN Head(l)
    ELSE Head(l) \o <<",">> \o JoinComma(Tail(l))

\* A faulty variant: the whole list in one field, comma-joined
appl_data_joined(parameters) ==
    IF "appl" \in DOMAIN parameters
    THEN <<"&","a","p","p","l","=">> \o JoinComma(parameters["appl"].v)
    ELSE <<>>

\* lines 204-211: one '&appl=' + appl per element of the list, unquoted
appl_data(parameters) ==
    IF "appl" \in DOMAIN parameters
    THEN ApplFragments(parameters["appl"].v)
    ELSE <<>>

\* urllib.urlencode(parameters): quote_plus(str(k)) '=' quote_plus(str(v)) for
\* every item, joined with '&', in the dict's iteration order
RECURSIVE urlencode(_, _)
urlencode(parameters, order) ==
    IF order = <<>> THEN <<>>
    ELSE LET k == Head(order)
             item == quote_plus(KeyChars(k)) \o <<"=">> \o quote_plus(PyStr(parameters[k]))
         IN  IF Len(order) = 1 THEN item
             ELSE item \o <<"&">> \o urlencode(parameters, Tail(order))

\* lines 198-215: the body service_run posts
request_data(email, title, parameters, order) ==
    LET p == WithEmailTitle(email, title, parameters)
    IN  urlencode(Del(p, "appl"), order) \o appl_data(p)

\* the keys urlencode iterates over (line 213, after del parameters['appl'])
EncodedKeys(email, title, parameters) ==
    DOMAIN WithEmailTitle(email, title, parameters) \ {"appl"}

----------------------------------------------------------------------------
(* The remote service (the environment).                                   *)

\* Status tokens the service answers; the client only tells RUNNING and
\* PENDING from everything else
StatusTokens == {"PENDING", "RUNNING", "FINISHED", "ERROR", "FAILURE", "NOT_FOUND"}

\* Result types a job can offer: identifier and fileSuffix
ResultTypeUniverse ==
    { [identifier |-> "tsv", fileSuffix |-> "tsv"],
      [identifier |-> "log", fileSuffix |-> "txt"] }

\* The lists service_get_result_types can return: distinct types, in any order
ResultTypeLists ==
    UNION { {l \in [1..n -> ResultTypeUniverse] :
                \A i, j \in 1..n : i # j => l[i] # l[j]} :
            n \in 0..Cardinality(ResultTypeUniverse) }

\* Job identifiers the service hands out
JobIds == {"iprscan5-R1"}

\* The body of a result and of an error document
ResultBody(id, type_) == "result of " \o id \o " as " \o type_
ErrorBody == "error document"

\* One entry of the trace: an HTTP request with its outcome, or a sleep
Event(op, url, data, ok, resp) ==
    [op |-> op, url |-> url, data |-> data, ok |-> ok, resp |-> resp]
Sleep(secs) == Event("sleep", "", secs, TRUE, None)

IsRequest(e) == e.op # "sleep"

\* How often the service has answered PENDING or RUNNING so far
WaitingAnswers(t) ==
    Cardinality({i \in DOMAIN t : t[i].op = "status" /\ t[i].ok
                                   /\ t[i].resp \in {"PENDING", "RUNNING"}})

\* What the service may answer to the next status request
StatusAnswers(t) ==
    IF WaitingAnswers(t) < MaxPolls THEN StatusTokens
    ELSE StatusTokens \ {"PENDING", "RUNNING"}

----------------------------------------------------------------------------
(* The command line.                                                       *)

\* numOpts of line 42, counting the options the model knows
numOpts(o) ==
    1 + Len(o.args)
      + Cardinality({f \in {"email", "sequence", "appl", "title", "outfile",
                             "outformat", "jobid", "paramDetail"} : o[f] # None})
      + Cardinality({f \in {"goterms", "nogoterms", "pathways", "nopathways",
                             "async", "polljob", "status", "resultTypes",
                             "params"} : o[f]})

\* The if/elif chain of lines 344-401
Branch(o) ==
    IF numOpts(o) < 2 THEN "help"
    ELSE IF o.params THEN "params"
    ELSE IF Truthy(o.paramDetail) THEN "paramDetail"
    ELSE IF TruthyText(o.email) /\ ~Truthy(o.jobid) THEN "submit"
    ELSE IF o.status /\ Truthy(o.jobid) THEN "status"
    ELSE IF o.resultTypes /\ Truthy(o.jobid) THEN "resultTypes"
    ELSE IF o.polljob /\ Truthy(o.jobid) THEN "polljob"
    ELSE "error"

\* Command lines of the runs whose control flow is explored
RunOptions ==
    [ params : BOOLEAN, paramDetail : {None, Some("appl")},
      email : {None, Some(<<"u","@","h">>)},
      sequence : {None},
      args : {<<>>, << <<"P">> >>},
      appl : {None}, title : {None},
      goterms : {FALSE}, nogoterms : {FALSE},
      pathways : {FALSE}, nopathways : {FALSE},
      outfile : {None, Some("out")},
      outformat : {None, Some("tsv"), Some("")},
      async : BOOLEAN,
      jobid : {None, Some("iprscan5-J0")},
      polljob : BOOLEAN, status : BOOLEAN, resultTypes : BOOLEAN ]

\* A string variable the script has not assigned yet
Unset == "<unset>"

Start(o) ==
    /\ options = o
    /\ pc = "main"
    /\ job_id = Unset
    /\ result = Unset
    /\ pollReturn = [called |-> FALSE, value |-> None]
    /\ result_types = <<>>
    /\ idx = 0
    /\ trace = <<>>
    /\ files = <<>>
    /\ stdout = <<>>
    /\ stderr = <<>>

Init == \E o \in RunOptions : Start(o)

----------------------------------------------------------------------------
(* The script.                                                             *)

\* A faulty variant: the failed request is given up but the script goes on
ContinueAfterError(at) == at

\* lines 135-138 and 227-230: an HTTPError is re-raised; nothing catches it,
\* so the script ends wherever the request was made
AfterHTTPError(at) == "raised"

\* line 300: the condition of the while loop of client_poll
WhileCondition(r) == r = "RUNNING" \/ r = "PENDING"

\* Faulty variants: sleep after every fetch; never sleep
SleepAlways(r) == TRUE
SleepNever(r) == FALSE

\* line 303: whether client_poll sleeps after a status fetch
SleepCondition(r) == r = "RUNNING" \/ r = "PENDING"

\* lines 297-305: client_poll has no return statement
ClientPollValue(r) == None

\* A faulty variant: results are only fetched for a finished job
OnlyWhenFinished(r) == IF r = "FINISHED" THEN "result_types" ELSE "done"

\* lines 313-315: whatever client_poll saw, get_result goes on to the result types
AfterPoll(r) == "result_types"

\* A faulty variant: get_result does not wait for the job
SkipPoll == "result_types"

\* line 313: get_result starts with client_poll
GetResultEntry == "while"

\* A faulty variant: the synchronous branch is always taken
NeverAsync(o) == FALSE

\* line 384: if options.async
IsAsync(o) == o.async

\* A faulty variant: the filter is ignored
SelectAll(o, resultType) == TRUE

\* line 323: not options.outformat or options.outformat == identifier
Selected(o, resultType) ==
    ~Truthy(o.outformat) \/ Val(o.outformat) = resultType.identifier

\* lines 318-321: the name of the result file
Filename(o, id, resultType) ==
    IF Truthy(o.outfile)
    THEN Val(o.outfile) \o "." \o resultType.identifier \o "." \o resultType.fileSuffix
    ELSE id \o "." \o resultType.identifier \o "." \o resultType.fileSuffix

\* No options... print help. (lines 344-345)
PrintHelp ==
    /\ pc = "main" /\ Branch(options) = "help"
    /\ stdout' = Append(stdout, "help")
    /\ pc' = "done"
    /\ UNCHANGED <<options, job_id, result, pollReturn, result_types, idx,
                   trace, files, stderr>>

\* lines 399-401
Unrecognised ==
    /\ pc = "main" /\ Branch(options) = "error"
    /\ stderr' = Append(stderr, "Error: unrecognised argument combination")
    /\ stdout' = Append(stdout, "help")
    /\ pc' = "done"
    /\ UNCHANGED <<options, job_id, result, pollReturn, result_types, idx,
                   trace, files>>

\* A GET request that only prints what it receives: print_get_parameters,
\* print_get_parameter_details, print_get_status, print_get_result_types
PrintRequest(branch, op, url, answers) ==
    /\ pc = "main" /\ Branch(options) = branch
    /\ \E ok \in BOOLEAN :
         IF ok
         THEN \E resp \in answers :
                /\ trace' = Append(trace, Event(op, url, <<>>, TRUE, resp))
                /\ stdout' = Append(stdout, resp)
                /\ pc' = "done"
                /\ UNCHANGED stderr
         ELSE /\ trace' = Append(trace, Event(op, url, <<>>, FALSE, ErrorBody))
              /\ stderr' = Append(stderr, ErrorBody)
              /\ pc' = AfterHTTPError("done")
              /\ UNCHANGED stdout
    /\ UNCHANGED <<options, job_id, result, pollReturn, result_types, idx, files>>

\* lines 347-348
PrintGetParameters ==
    PrintRequest("params", "parameters", baseUrl \o "/parameters", {"parameter ids"})

\* lines 350-351
PrintGetParameterDetails ==
    /\ Truthy(options.paramDetail)
    /\ PrintRequest("paramDetail", "parameter_details",
                    baseUrl \o "/parameter_details/" \o Val(options.paramDetail),
                    {"parameter details"})

\* lines 391-392
PrintGetStatus ==
    /\ Truthy(options.jobid)
    /\ PrintRequest("status", "status",
                    baseUrl \o "/status/" \o Val(options.jobid), StatusTokens)

\* lines 394-395
PrintGetResultTypes ==
    /\ Truthy(options.jobid)
    /\ PrintRequest("resultTypes", "result_types",
                    baseUrl \o "/result_types/" \o Val(options.jobid),
                    {"result type descriptions"})

\* lines 353-383 with service_run (lines 195-233): build the parameters and
\* post the job
SubmitJob ==
    /\ pc = "main" /\ Branch(options) = "submit"
    /\ LET params == BuildParams(options)
       IN \E order \in Orders(EncodedKeys(options.email, options.title, params)) :
          LET body == request_data(options.email, options.title, params, order)
          IN \E ok \in BOOLEAN :
             IF ok
             THEN \E id \in JobIds :
                    /\ trace' = Append(trace,
                                   Event("run", baseUrl \o "/run/", body, TRUE, id))
                    /\ job_id' = id
                    /\ pc' = "submitted"
                    /\ UNCHANGED stderr
             ELSE /\ trace' = Append(trace,
                             Event("run", baseUrl \o "/run/", body, FALSE, ErrorBody))
                  /\ stderr' = Append(stderr, ErrorBody)
                  /\ pc' = AfterHTTPError("submitted")
                  /\ UNCHANGED job_id
    /\ UNCHANGED <<options, result, pollReturn, result_types, idx, files, stdout>>

\* lines 384-385: async mode
AsyncOutput ==
    /\ pc = "submitted" /\ IsAsync(options)
    /\ stdout' = Append(stdout, job_id)
    /\ pc' = "done"
    /\ UNCHANGED <<options, job_id, result, pollReturn, result_types, idx,
                   trace, files, stderr>>

\* lines 386-389 and 309-313, 297-299: sync mode prints the job id, sleeps and
\* enters get_result, which enters client_poll
SyncGetResult ==
    /\ pc = "submitted" /\ ~IsAsync(options)
    /\ stderr' = Append(stderr, job_id)
    /\ trace' = Append(trace, Sleep(submitDelay))
    /\ result' = "PENDING"
    /\ pc' = GetResultEntry
    /\ UNCHANGED <<options, job_id, pollReturn, result_types, idx, files, stdout>>

\* lines 397-398 and 309-313, 297-299: get results for a job given by --jobid
PollJob ==
    /\ pc = "main" /\ Branch(options) = "polljob"
    /\ job_id' = Val(options.jobid)
    /\ result' = "PENDING"
    /\ pc' = GetResultEntry
    /\ UNCHANGED <<options, pollReturn, result_types, idx, trace, files,
                   stdout, stderr>>

\* lines 300-303: one pass of the while loop up to the test before the sleep
PollFetch ==
    /\ pc = "while" /\ WhileCondition(result)
    /\ \E ok \in BOOLEAN :
         IF ok
         THEN \E s \in StatusAnswers(trace) :
                /\ trace' = Append(trace,
                      Event("status", baseUrl \o "/status/" \o job_id, <<>>, TRUE, s))
                /\ result' = s
                /\ stderr' = Append(stderr, s)
                /\ pc' = IF SleepCondition(s) THEN "sleep" ELSE "while"
         ELSE /\ trace' = Append(trace,
                      Event("status", baseUrl \o "/status/" \o job_id, <<>>, FALSE,
                            ErrorBody))
              /\ stderr' = Append(stderr, ErrorBody)
              /\ pc' = AfterHTTPError("while")
              /\ UNCHANGED result
    /\ UNCHANGED <<options, job_id, pollReturn, result_types, idx, files, stdout>>

\* line 304: time.sleep(checkInterval)
PollSleep ==
    /\ pc = "sleep"
    /\ trace' = Append(trace, Sleep(checkInterval))
    /\ pc' = "while"
    /\ UNCHANGED <<options, job_id, result, pollReturn, result_types, idx,
                   files, stdout, stderr>>

\* lines 300, 305 and 313: the while condition fails and client_poll returns
ClientPollEnd ==
    /\ pc = "while" /\ ~WhileCondition(result)
    /\ pollReturn' = [called |-> TRUE, value |-> ClientPollValue(result)]
    /\ pc' = AfterPoll(result)
    /\ UNCHANGED <<options, job_id, result, result_types, idx, trace, files,
                   stdout, stderr>>

\* line 315: get available result types
GetResultTypes ==
    /\ pc = "result_types"
    /\ \E ok \in BOOLEAN :
         IF ok
         THEN \E l \in ResultTypeLists :
                /\ trace' = Append(trace,
                      Event("result_types", baseUrl \o "/result_types/" \o job_id,
                            <<>>, TRUE, l))
                /\ result_types' = l
                /\ idx' = 1
                /\ pc' = "for"
                /\ UNCHANGED stderr
         ELSE /\ trace' = Append(trace,
                      Event("result_types", baseUrl \o "/result_types/" \o job_id,
                            <<>>, FALSE, ErrorBody))
              /\ stderr' = Append(stderr, ErrorBody)
              /\ pc' = AfterHTTPError("for")
              /\ UNCHANGED <<result_types, idx>>
    /\ UNCHANGED <<options, job_id, result, pollReturn, files, stdout>>

\* lines 316-329: one pass of the for loop over the result types
GetOneResult ==
    /\ pc = "for" /\ idx <= Len(result_types)
    /\ LET resultType == result_types[idx]
           filename == Filename(options, job_id, resultType)
           url == baseUrl \o "/result/" \o job_id \o "/" \o resultType.identifier
       IN IF Selected(options, resultType)
          THEN \E ok \in BOOLEAN :
                 IF ok
                 THEN LET body == ResultBody(job_id, resultType.identifier)
                      IN /\ trace' = Append(trace, Event("result", url, <<>>, TRUE, body))
                         /\ files' = Append(files, [name |-> filename, data |-> body])
                         /\ stdout' = Append(stdout, filename)
                         /\ idx' = idx + 1
                         /\ UNCHANGED <<pc, stderr>>
                 ELSE /\ trace' = Append(trace,
                                 Event("result", url, <<>>, FALSE, ErrorBody))
                      /\ stderr' = Append(stderr, ErrorBody)
                      /\ pc' = AfterHTTPError("for")
                      /\ UNCHANGED <<idx, files, stdout>>
          ELSE /\ idx' = idx + 1
               /\ UNCHANGED <<pc, trace, files, stdout, stderr>>
    /\ UNCHANGED <<options, job_id, result, pollReturn, result_types>>

\* line 330: the for loop is over and get_result returns
GetResultEnd ==
    /\ pc = "for" /\ idx > Len(result_types)
    /\ pc' = "done"
    /\ UNCHANGED <<options, job_id, result, pollReturn, result_types, idx,
                   trace, files, stdout, stderr>>

Next ==
    \/ PrintHelp
    \/ PrintGetParameters
    \/ PrintGetParameterDetails
    \/ SubmitJob
    \/ AsyncOutput
    \/ SyncGetResult
    \/ PrintGetStatus
    \/ PrintGetResultTypes
    \/ PollJob
    \/ Unrecognised
    \/ PollFetch
    \/ PollSleep
    \/ ClientPollEnd
    \/ GetResultTypes
    \/ GetOneResult
    \/ GetResultEnd

Spec == Init /\ [][Next]_vars

----------------------------------------------------------------------------
(* Submissions alone: the command lines that reach service_run in           *)
(* asynchronous mode, with every text of the --appl option up to            *)
(* MaxApplLen characters.                                                   *)

ApplAlphabet == {"a", "b", ",", "&"}

ApplTexts == UNION { [1..n -> ApplAlphabet] : n \in 1..MaxApplLen }

\* Command lines that vary the texts: --appl, --title, --sequence
TextOptions ==
    [ params : {FALSE}, paramDetail : {None},
      email : {Some(<<"u","@","h">>)},
      sequence : {None, Some(<<"f">>), Some(<<"P">>)},
      args : {<<>>},
      appl : {None} \cup {Some(a) : a \in ApplTexts},
      title : {None, Some(<<"t","&"," ">>)},
      goterms : {FALSE}, nogoterms : {FALSE},
      pathways : {FALSE}, nopathways : {FALSE},
      outfile : {None}, outformat : {None},
      async : {TRUE},
      jobid : {None},
      polljob : {FALSE}, status : {FALSE}, resultTypes : {FALSE} ]

\* Command lines that vary the flags: --goterms, --nogoterms, --pathways,
\* --nopathways
FlagOptions ==
    [ params : {FALSE}, paramDetail : {None},
      email : {Some(<<"u","@","h">>)},
      sequence : {Some(<<"f">>)},
      args : {<<>>},
      appl : {None, Some(<<"a",",","b">>)},
      title : {None},
      goterms : BOOLEAN, nogoterms : BOOLEAN,
      pathways : BOOLEAN, nopathways : BOOLEAN,
      outfile : {None}, outformat : {None},
      async : {TRUE},
      jobid : {None},
      polljob : {FALSE}, status : {FALSE}, resultTypes : {FALSE} ]

SubmitOptions == TextOptions \cup FlagOptions

InitSubmit == \E o \in SubmitOptions : Start(o)

NextSubmit ==
    \/ SubmitJob
    \/ AsyncOutput

SpecSubmit == InitSubmit /\ [][NextSubmit]_vars

----------------------------------------------------------------------------
(* Reading the trace.                                                      *)

Waiting == {"PENDING", "RUNNING"}

\* The requests of the trace, without the sleeps
Requests == SelectSeq(trace, IsRequest)

\* Positions of the trace holding a request of kind op
At(op) == {i \in DOMAIN trace : trace[i].op = op}

\* A status fetch that answered with a value outside {PENDING, RUNNING}
TerminalFetch(e) == e.op = "status" /\ e.ok /\ e.resp \notin Waiting

\* The run is a synchronous submission
SyncRun == Branch(options) = "submit" /\ ~options.async

\* The run goes through get_result: a synchronous submission or --polljob
GetResultRun == SyncRun \/ Branch(options) = "polljob"

\* The run is an asynchronous submission
AsyncRun == Branch(options) = "submit" /\ options.async

\* The script has ended, normally or by an uncaught exception
Ended == pc \in {"done", "raised"}

\* The output-format filter is in force: given and not empty
FilterSet == options.outformat # None /\ Val(options.outformat) # ""

IsWanted(t) == ~FilterSet \/ t.identifier = Val(options.outformat)

\* The result types get_result is to fetch, in list order
Wanted == SelectSeq(result_types, IsWanted)

\* The file name the retrieval is to use for a result type
WantedName(t) ==
    (IF options.outfile # None /\ Val(options.outfile) # ""
     THEN Val(options.outfile) ELSE job_id)
    \o "." \o t.identifier \o "." \o t.fileSuffix

\* The result requests of the trace, in order
ResultRequests == SelectSeq(trace, LAMBDA e : e.op = "result")

----------------------------------------------------------------------------
(* Reading a submission body as a form: fields separated by '&', each a     *)
(* name and a value separated by the first '=', both percent-decoded.       *)

RECURSIVE SplitOnFrom(_, _, _, _, _)
SplitOnFrom(s, sep, i, cur, acc) ==
    IF i > Len(s) THEN Append(acc, cur)
    ELSE IF s[i] = sep THEN SplitOnFrom(s, sep, i + 1, <<>>, Append(acc, cur))
    ELSE SplitOnFrom(s, sep, i + 1, Append(cur, s[i]), acc)

SplitOn(s, sep) == SplitOnFrom(s, sep, 1, <<>>, <<>>)

CodedChars == {"@", "&", "=", "+", "%", ",", ";", "/"}

RECURSIVE UnquoteFrom(_, _)
UnquoteFrom(s, i) ==
    IF i > Len(s) THEN <<>>
    ELSE IF s[i] = "+" THEN <<" ">> \o UnquoteFrom(s, i + 1)
    ELSE IF s[i] = "%" /\ i + 2 <= Len(s)
            /\ \E c \in CodedChars : PercentCode(c) = <<s[i], s[i+1], s[i+2]>>
         THEN <<CHOOSE c \in CodedChars : PercentCode(c) = <<s[i], s[i+1], s[i+2]>> >>
              \o UnquoteFrom(s, i + 3)
    ELSE <<s[i]>> \o UnquoteFrom(s, i + 1)

unquote_plus(s) == UnquoteFrom(s, 1)

FirstEq(f) ==
    IF \E i \in DOMAIN f : f[i] = "="
    THEN CHOOSE i \in DOMAIN f : f[i] = "=" /\ \A j \in 1..(i-1) : f[j] # "="
    ELSE Len(f) + 1

FormField(f) ==
    LET eq == FirstEq(f)
    IN  [name |-> unquote_plus(SubSeq(f, 1, eq - 1)),
         value |-> unquote_plus(SubSeq(f, eq + 1, Len(f)))]

FormFields(body) ==
    LET raw == SplitOn(body, "&") IN [i \in DOMAIN raw |-> FormField(raw[i])]

IsApplField(f) == f.name = <<"a","p","p","l">>

\* The values of the appl fields of a body, in order
ApplValues(body) ==
    LET fs == SelectSeq(FormFields(body), IsApplField)
    IN  [i \in DOMAIN fs |-> fs[i].value]

\* The submission of the run, when one was sent
Submitted == At("run") # {}
SubmittedBody == trace[1].data
SubmittedParams == WithEmailTitle(options.email, options.title, BuildParams(options))

HasAppl == "appl" \in DOMAIN SubmittedParams
ApplList == SubmittedParams["appl"].v

\* Every other parameter is one field of the body, holding its value
OthersOnce(body) ==
    LET fs == FormFields(body)
        p == SubmittedParams
    IN  \A k \in DOMAIN p \ {"appl"} :
            LET at == {i \in DOMAIN fs : fs[i].name = KeyChars(k)}
            IN  /\ Cardinality(at) = 1
                /\ \A i \in at : fs[i].value = PyStr(p[k])

\* A text made only of characters form encoding leaves as they are
Plain(text) == \A i \in DOMAIN text : text[i] \in always_safe

----------------------------------------------------------------------------
(* The poll loop.                                                          *)

\* What holds after the first status fetch with a value outside
\* {PENDING, RUNNING}: no later status request, no later sleep, the loop is
\* not about to sleep, and the loop variable holds that value
StopsOnTerminal(i) ==
    /\ \A j \in (i+1)..Len(trace) : trace[j].op \notin {"status", "sleep"}
    /\ \A j \in 1..(i-1) : trace[j].op = "status" => ~TerminalFetch(trace[j])
    /\ pc # "sleep"
    /\ result = trace[i].resp

\* C1, as stated: the poll loop stops on the first status fetch whose value
\* is outside {PENDING, RUNNING}, without a further status request or sleep,
\* and client_poll returns that value to its caller.
C1_ReturnsStatus ==
    GetResultRun =>
        \A i \in DOMAIN trace : TerminalFetch(trace[i]) =>
            /\ StopsOnTerminal(i)
            /\ pollReturn.called => pollReturn.value = Some(trace[i].resp)

\* C1, amended: the poll loop stops on the first status fetch whose value is
\* outside {PENDING, RUNNING}, without a further status request or sleep;
\* the value is printed to stderr, and client_poll returns nothing (None).
C1_StopsAndPrints ==
    GetResultRun =>
        \A i \in DOMAIN trace : TerminalFetch(trace[i]) =>
            /\ StopsOnTerminal(i)
            /\ \E k \in DOMAIN stderr : stderr[k] = trace[i].resp
            /\ pollReturn.called => pollReturn.value = None

\* C1, witness: client_poll has returned after a PENDING or RUNNING answer
\* followed by a failure status
C1_Witness ==
    /\ GetResultRun /\ pollReturn.called
    /\ Cardinality(At("status")) >= 2
    /\ result = "ERROR"

\* C9: the loop polls for as long as the service answers PENDING or RUNNING,
\* with exactly one sleep of checkInterval between two consecutive status
\* requests; it ends only on a status outside {PENDING, RUNNING} or on a
\* failed status request, and it keeps no count of its requests.
C9_PollsUntilTerminal ==
    GetResultRun =>
        /\ \A i \in DOMAIN trace :
              (trace[i].op = "sleep" /\ trace[i].data = checkInterval) =>
                  /\ i > 1 /\ trace[i-1].op = "status" /\ trace[i-1].ok
                  /\ trace[i-1].resp \in Waiting
        /\ \A j \in At("status") :
              (\E i \in At("status") : i < j) =>
                  /\ trace[j-1].op = "sleep" /\ trace[j-1].data = checkInterval
                  /\ trace[j-2].op = "status"
        /\ pollReturn.called => \E i \in At("status") : TerminalFetch(trace[i])
        /\ \A i \in At("status") :
              /\ (trace[i].ok /\ trace[i].resp \in Waiting /\ i = Len(trace)) =>
                     pc = "sleep"
              /\ (trace[i].ok /\ trace[i].resp \in Waiting /\ i = Len(trace) - 1) =>
                     pc = "while" /\ result \in Waiting
              /\ ~trace[i].ok => pc = "raised" /\ i = Len(trace)

\* C9, witness: the loop has ended after as many PENDING or RUNNING answers
\* as the service gives, each followed by one sleep
C9_Witness ==
    /\ GetResultRun /\ pollReturn.called
    /\ WaitingAnswers(trace) = MaxPolls
    /\ Cardinality({i \in DOMAIN trace : trace[i].op = "sleep"
                                          /\ trace[i].data = checkInterval}) = MaxPolls

\* C10: after any status outside {PENDING, RUNNING}, failure statuses
\* included, get_result goes on to request the result types and to fetch
\* the results.
C10_ResultsAfterAnyStatus ==
    GetResultRun =>
        /\ \A i \in DOMAIN trace : TerminalFetch(trace[i]) =>
              \/ pc = "while" /\ i = Len(trace)
              \/ pc = "result_types" /\ i = Len(trace)
              \/ i < Len(trace) /\ trace[i+1].op = "result_types"
        /\ pollReturn.called /\ Ended => At("result_types") # {}
        /\ (pc = "done" /\ At("result_types") # {}) =>
               Len(files) = Len(Wanted)

\* C10, witness: a job that ended in ERROR had its results fetched and written
C10_Witness ==
    /\ GetResultRun /\ pc = "done"
    /\ result = "ERROR"
    /\ files # <<>>

----------------------------------------------------------------------------
(* The order of the requests.                                              *)

Rank(op) ==
    CASE op = "run" -> 0
      [] op = "status" -> 1
      [] op = "result_types" -> 2
      [] op = "result" -> 3
      [] OTHER -> 4

\* C2: in a synchronous run the requests go submit, status polls up to a
\* status outside {PENDING, RUNNING}, one result-types request, result
\* fetches.
C2_RequestOrder ==
    SyncRun =>
        LET R == Requests IN
        /\ \A i \in DOMAIN R : Rank(R[i].op) <= 3
        /\ \A i, j \in DOMAIN R : i < j => Rank(R[i].op) <= Rank(R[j].op)
        /\ \A i \in DOMAIN R : R[i].op = "run" => i = 1
        /\ \A i \in DOMAIN R : R[i].op # "run" => R[1].op = "run" /\ R[1].ok
        /\ \A i \in DOMAIN R : R[i].op = "result_types" =>
              /\ i > 1 /\ TerminalFetch(R[i-1])
              /\ \A j \in DOMAIN R : R[j].op = "result_types" => j = i
        /\ \A i \in DOMAIN R : R[i].op = "result" =>
              \E j \in 1..(i-1) : R[j].op = "result_types" /\ R[j].ok

\* C2, witness: a synchronous run that polled twice and fetched two results
C2_Witness ==
    /\ SyncRun /\ pc = "done"
    /\ Cardinality(At("status")) >= 2
    /\ Len(files) >= 2

\* C7: in asynchronous mode the program sends one submission, prints the job
\* identifier and ends, with no status, result-types or result request and
\* no result file.
C7_AsyncSubmitsOnly ==
    AsyncRun =>
        /\ \A i \in DOMAIN trace : trace[i].op = "run"
        /\ Len(trace) <= 1
        /\ files = <<>>
        /\ pc \in {"main", "submitted", "done", "raised"}
        /\ pc # "main" => Len(trace) = 1
        /\ pc = "done" => trace[1].ok /\ stdout = <<trace[1].resp>>

\* C7, witness: an asynchronous run has ended after printing the job id
C7_Witness ==
    /\ AsyncRun /\ pc = "done"
    /\ stdout = <<job_id>> /\ job_id \in JobIds

\* C6: a failed submission or status request is the last request of the
\* run: nothing is retried, no further request is sent, no file is written.
C6_FailureEndsRun ==
    \A i \in DOMAIN trace :
        (trace[i].op \in {"run", "status"} /\ ~trace[i].ok) =>
            /\ i = Len(trace)
            /\ files = <<>>
            /\ pc = "raised"

\* C6, witness: a status request failed after the job was seen running
C6_Witness ==
    /\ SyncRun /\ pc = "raised"
    /\ \E i \in At("status") : ~trace[i].ok /\ i > 3

----------------------------------------------------------------------------
(* Result retrieval.                                                       *)

ResultUrl(t) == baseUrl \o "/result/" \o job_id \o "/" \o t.identifier

C3_OthersStillFetched ==
    (GetResultRun /\ Ended) =>
        \A i \in DOMAIN trace : (trace[i].op = "result" /\ ~trace[i].ok) =>
            /\ Len(ResultRequests) = Len(Wanted)
            /\ Len(files) = Len(Wanted) - 1

----------------------------------------------------------------------------
(* The submission.                                                         *)

HasField(body, name) ==
    LET fs == FormFields(body) IN \E i \in DOMAIN fs : fs[i].name = name

\* C5, as stated: every submission sent carries an email and a sequence
\* parameter.
C5_EmailAndSequence ==
    \A i \in At("run") :
        /\ HasField(trace[i].data, KeyChars("email"))
        /\ HasField(trace[i].data, KeyChars("sequence"))

\* What C8 says of a submitted body: one appl field per element of the
\* list, in list order, and every other parameter once
ApplRepeated ==
    LET list == ApplList IN
    /\ ApplValues(SubmittedBody) = list
    /\ OthersOnce(SubmittedBody)
    /\ Len(FormFields(SubmittedBody))
         = Cardinality(DOMAIN SubmittedParams \ {"appl"}) + Len(list)

\* C8, as stated: for every list given as the appl parameter the body holds
\* one appl=<value> field per element, in list order, never one field with
\* the elements joined, and every other parameter once.
C8_ApplRepeatedAlways ==
    (Submitted /\ HasAppl) => ApplRepeated

\* C8, amended: the same for every list whose elements consist of
\* characters that form encoding leaves unchanged (letters, digits, '_',
\* '.', '-'); the elements are appended without quoting.
C8_ApplRepeatedPlain ==
    (Submitted /\ HasAppl) =>
        LET list == ApplList
        IN  (\A i \in DOMAIN list : Plain(list[i])) => ApplRepeated

\* C8, witness: a body was sent for the list [a, b] together with a title
C8_Witness ==
    /\ Submitted /\ HasAppl
    /\ ApplList = << <<"a">>, <<"b">> >>
    /\ "title" \in DOMAIN SubmittedParams
    /\ ApplValues(SubmittedBody) = ApplList

====
